---- MODULE Spec2Model ----
(***************************************************************************)
(* The simulation engine of src/simulation.py as a state machine.          *)
(*                                                                         *)
(* Numbers.  Python floats are modelled by exact rationals <<n, d>> in     *)
(* lowest terms with d > 0, so that equal values are equal tuples.         *)
(* Strings.  A variable name or a source reference is modelled by the      *)
(* sequence of its "."-separated segments: "A.level" is <<"A", "level">>,  *)
(* "self" is <<"self">>.  The code only ever splits such strings on ".",   *)
(* tests them for a "." and joins them with ".".                           *)
(***************************************************************************)
EXTENDS Integers, Sequences, FiniteSets, TLC

VARIABLES
    heap,       \* model objects by reference; heap[CallerRef] is the caller's SystemModel
    engines,    \* engines[e]: a SimulationEngine (model, _state, _variable_metadata) or NoEngine
    result,     \* what the last call returned or raised
    lastCall,   \* history variable: the call just made and its arguments
    pre,        \* history variable: heap and engines as they were before that call
    calls,      \* history variable: number of calls made so far
    gen         \* the SystemModelGenerator and the call of generate in progress

vars == <<heap, engines, result, lastCall, pre, calls, gen>>

(***************************************************************************)
(* Rational arithmetic standing for Python float arithmetic.               *)
(***************************************************************************)
RECURSIVE GCD(_, _)
GCD(a, b) == IF b = 0 THEN a ELSE GCD(b, a % b)

AbsInt(n) == IF n < 0 THEN -n ELSE n

\* the rational n/d (d # 0) in lowest terms with a positive denominator
Q(n, d) ==
    LET s == IF d < 0 THEN -1 ELSE 1
        g == GCD(AbsInt(n), AbsInt(d))
    IN  <<(s * n) \div g, (s * d) \div g>>

Zero == <<0, 1>>
One == <<1, 1>>
Half == <<1, 2>>

\* the denominators are cancelled before multiplying, to keep the integers small
Add(a, b) ==
    LET g == GCD(a[2], b[2])
    IN  Q(a[1] * (b[2] \div g) + b[1] * (a[2] \div g), (a[2] \div g) * b[2])
Mul(a, b) ==
    LET g1 == GCD(AbsInt(a[1]), b[2])
        g2 == GCD(AbsInt(b[1]), a[2])
    IN  Q((a[1] \div g1) * (b[1] \div g2), (a[2] \div g2) * (b[2] \div g1))
Neg(a) == <<-a[1], a[2]>>
Abs(a) == <<AbsInt(a[1]), a[2]>>
\* a / b for b # Zero
Quot(a, b) == Mul(a, Q(b[2], b[1]))
Less(a, b) ==
    LET g == GCD(a[2], b[2])
    IN  a[1] * (b[2] \div g) < b[1] * (a[2] \div g)
\* Python's max(a, b) and min(a, b) on two floats
PyMax(a, b) == IF Less(a, b) THEN b ELSE a
PyMin(a, b) == IF Less(b, a) THEN b ELSE a

\* Python's None
None == <<>>

(***************************************************************************)
(* Outcome of a Python expression or call: a value, or a raised exception. *)
(***************************************************************************)
Ok(v) == [exc |-> "", val |-> v]
Raise(e) == [exc |-> e, val |-> Zero]

(***************************************************************************)
(* INFLUENCE FUNCTIONS                                                     *)
(***************************************************************************)
linear(x, coef) == Ok(Mul(coef, x))

\* math.exp(-5 * (x - 0.5)) raises OverflowError below this source value
ExpOverflowBelow == <<-1414, 10>>

\* Stand-in for 1 / (1 + exp(-t)), which is irrational: the algebraic sigmoid
\* 1/2 + t / (2 * (1 + |t|)).  Like the logistic curve it is strictly
\* increasing, lies strictly between 0 and 1 and takes 1/2 at t = 0.
Logistic(t) == Add(Half, Quot(t, Mul(<<2, 1>>, Add(One, Abs(t)))))

sigmoid(x, coef) ==
    IF Less(x, ExpOverflowBelow)
    THEN Ok(IF Less(Half, x) THEN coef ELSE Zero)
    ELSE Ok(Mul(coef, Logistic(Mul(<<5, 1>>, Add(x, Neg(Half))))))

threshold(x, coef) == Ok(IF Less(Half, x) THEN coef ELSE Zero)

division(x, coef) ==
    IF Add(One, x) = Zero
    THEN Raise("ZeroDivisionError")
    ELSE Ok(Quot(coef, Add(One, x)))

\* INFLUENCE_FUNCTIONS.get(name, linear)(x, coef)
INFLUENCE_FUNCTIONS(name, x, coef) ==
    CASE name = "linear" -> linear(x, coef)
      [] name = "sigmoid" -> sigmoid(x, coef)
      [] name = "threshold" -> threshold(x, coef)
      [] name = "division" -> division(x, coef)
      [] OTHER -> linear(x, coef)

(***************************************************************************)
(* The data model of src/models.py.  A SystemModel is                      *)
(*   [order, comps, dt, steps]                                             *)
(* where order lists the <<entity, component>> pairs in the iteration      *)
(* order of the nested dicts and comps maps each pair to its component.    *)
(***************************************************************************)
InfluenceModel(from, coef, kind, function, enabled) ==
    [from |-> from, coef |-> coef, kind |-> kind, function |-> function,
     enabled |-> enabled]

ComponentModel(type, initial, min, max, influences) ==
    [type |-> type, initial |-> initial, min |-> min, max |-> max,
     influences |-> influences]

SimulationModel(dt, steps) == [dt |-> dt, steps |-> steps]

Range(seq) == {seq[i] : i \in 1..Len(seq)}

(***************************************************************************)
(* SIMULATION ENGINE                                                       *)
(* An engine is [model, state, meta, order]: model is the reference of     *)
(* self.model in the heap, state is self._state.values, meta is            *)
(* self._variable_metadata and order is the insertion order of its keys.   *)
(* meta[v].influences is held as a second view of the component's list: in *)
(* the source it is the same list object as component.influences, and      *)
(* every writer assigns through both names.                                *)
(***************************************************************************)
NoEngine == [model |-> "", state |-> <<>>, meta |-> <<>>, order |-> <<>>]

\* self.model = model: the engine keeps the caller's object
Alias(ref, fresh) == ref

\* copy.deepcopy(model): the reference of a new object, given the fresh
\* reference the allocator hands out
deepcopy(ref, fresh) == fresh

\* order with the names of more that it does not hold yet appended
RECURSIVE AppendNew(_, _, _)
AppendNew(order, more, i) ==
    IF i > Len(more) THEN order
    ELSE AppendNew(IF more[i] \in Range(order) THEN order
                   ELSE Append(order, more[i]), more, i + 1)

Metadata(component, full_name) ==
    [type |-> component.type, min |-> component.min, max |-> component.max,
     influences |-> component.influences,
     entity |-> full_name[1], component |-> full_name[2]]

\* an initialisation that fills in the variables the state does not hold yet and
\* keeps the value of those it holds
initialize_state_keeping(h, eng) ==
    LET m == h[eng.model]
        names == Range(m.order)
    IN  [eng EXCEPT
            !.state = [k \in DOMAIN eng.state \cup names |->
                          IF k \in DOMAIN eng.state THEN eng.state[k]
                          ELSE m.comps[k].initial],
            !.meta = [k \in DOMAIN eng.meta \cup names |->
                          IF k \in names THEN Metadata(m.comps[k], k) ELSE eng.meta[k]],
            !.order = AppendNew(eng.order, m.order, 1)]

initialize_state(h, eng) ==
    LET m == h[eng.model]
        names == Range(m.order)
    IN  [eng EXCEPT
            !.state = [k \in DOMAIN eng.state \cup names |->
                          IF k \in names THEN m.comps[k].initial ELSE eng.state[k]],
            !.meta = [k \in DOMAIN eng.meta \cup names |->
                          IF k \in names THEN Metadata(m.comps[k], k) ELSE eng.meta[k]],
            !.order = AppendNew(eng.order, m.order, 1)]

\* SimulationEngine(model): the new heap and the new engine
SimulationEngine(h, model, fresh) ==
    LET ref == deepcopy(model, fresh)
        h1 == [r \in DOMAIN h \cup {ref} |-> IF r = ref THEN h[model] ELSE h[r]]
    IN  [exc |-> "", heap |-> h1,
         eng |-> initialize_state(h1, [NoEngine EXCEPT !.model = ref])]

get_state(eng) == eng.state

\* min/max clamping shared by set_parameter and _apply_bounds
Clamp(meta, value) ==
    LET v1 == IF meta.min # None THEN PyMax(meta.min, value) ELSE value
    IN  IF meta.max # None THEN PyMin(meta.max, v1) ELSE v1

\* a set_parameter without the membership test, which writes whatever key it
\* is given
set_parameter_unchecked(eng, variable, value) ==
    [exc |-> "",
     eng |-> [eng EXCEPT !.state =
                 [k \in DOMAIN eng.state \cup {variable} |->
                     IF k = variable THEN value ELSE eng.state[k]]]]

\* a set_parameter that writes the value as given
set_parameter_unclamped(eng, variable, value) ==
    IF variable \notin DOMAIN eng.state
    THEN [exc |-> "Unknown variable", eng |-> eng]
    ELSE [exc |-> "", eng |-> [eng EXCEPT !.state[variable] = value]]

\* a set_parameter that takes constants as immutable and leaves them as they are
set_parameter_sparing(eng, variable, value) ==
    IF variable \notin DOMAIN eng.state
    THEN [exc |-> "Unknown variable", eng |-> eng]
    ELSE IF eng.meta[variable].type = "constant"
    THEN [exc |-> "", eng |-> eng]
    ELSE [exc |-> "",
          eng |-> [eng EXCEPT !.state[variable] = Clamp(eng.meta[variable], value)]]

set_parameter(eng, variable, value) ==
    IF variable \notin DOMAIN eng.state
    THEN [exc |-> "Unknown variable", eng |-> eng]
    ELSE [exc |-> "",
          eng |-> [eng EXCEPT !.state[variable] = Clamp(eng.meta[variable], value)]]

\* the index of the last influence of the list whose from_ is source, 0 if none
LastFrom(influences, source) ==
    IF \E i \in 1..Len(influences) : influences[i].from = source
    THEN CHOOSE i \in 1..Len(influences) :
            /\ influences[i].from = source
            /\ \A j \in (i + 1)..Len(influences) : influences[j].from # source
    ELSE 0

\* index of the first influence of the list whose from_ equals source, 0 if none
FirstFrom(influences, source) ==
    IF \E i \in 1..Len(influences) : influences[i].from = source
    THEN CHOOSE i \in 1..Len(influences) :
            /\ influences[i].from = source
            /\ \A j \in 1..(i - 1) : influences[j].from # source
    ELSE 0

\* the component's list rebuilt and rebound instead: the metadata keeps the
\* list it was given
ReplaceInModel(h, eng, target, i, new_inf) ==
    [exc |-> "",
     heap |-> [h EXCEPT ![eng.model].comps[<<eng.meta[target].entity,
                                             eng.meta[target].component>>
                                          ].influences[i] = new_inf],
     eng |-> eng]

\* the new influence written into a list that the metadata keeps for itself
ReplaceInMetadata(h, eng, target, i, new_inf) ==
    [exc |-> "", heap |-> h,
     eng |-> [eng EXCEPT !.meta[target].influences[i] = new_inf]]

\* the assignments component.influences[i] = new_inf; meta["influences"][i] = new_inf
ReplaceInfluence(h, eng, target, i, new_inf) ==
    LET key == <<eng.meta[target].entity, eng.meta[target].component>>
    IN  [exc |-> "",
         heap |-> [h EXCEPT ![eng.model].comps[key].influences[i] = new_inf],
         eng |-> [eng EXCEPT !.meta[target].influences[i] = new_inf]]

\* a set_influence_coef that builds the new influence without its enabled flag,
\* which then takes the default True
set_influence_coef_enabling(h, eng, target, source, new_coef) ==
    IF target \notin DOMAIN eng.meta
    THEN [exc |-> "Unknown target variable", heap |-> h, eng |-> eng]
    ELSE IF FirstFrom(eng.meta[target].influences, source) = 0
    THEN [exc |-> "No influence", heap |-> h, eng |-> eng]
    ELSE ReplaceInfluence(h, eng, target,
             FirstFrom(eng.meta[target].influences, source),
             [eng.meta[target].influences[FirstFrom(eng.meta[target].influences, source)]
                 EXCEPT !.coef = new_coef, !.enabled = TRUE])

set_influence_coef(h, eng, target, source, new_coef) ==
    IF target \notin DOMAIN eng.meta
    THEN [exc |-> "Unknown target variable", heap |-> h, eng |-> eng]
    ELSE
      LET meta == eng.meta[target]
          component == h[eng.model].comps[<<meta.entity, meta.component>>]
          i == FirstFrom(component.influences, source)
      IN  IF FirstFrom(meta.influences, source) # 0 /\ i # 0
          THEN LET inf == component.influences[i]
               IN  ReplaceInfluence(h, eng, target, i,
                       InfluenceModel(inf.from, new_coef, inf.kind, inf.function,
                                      inf.enabled))
          ELSE [exc |-> "No influence", heap |-> h, eng |-> eng]

\* a toggle_influence that returns without raising when nothing matches
toggle_influence_silent(h, eng, target, source, enabled) ==
    IF target \notin DOMAIN eng.meta \/ FirstFrom(eng.meta[target].influences, source) = 0
    THEN [exc |-> "", heap |-> h, eng |-> eng]
    ELSE ReplaceInfluence(h, eng, target,
             FirstFrom(eng.meta[target].influences, source),
             [eng.meta[target].influences[FirstFrom(eng.meta[target].influences, source)]
                 EXCEPT !.enabled = enabled])

toggle_influence(h, eng, target, source, enabled) ==
    IF target \notin DOMAIN eng.meta
    THEN [exc |-> "Unknown target variable", heap |-> h, eng |-> eng]
    ELSE
      LET meta == eng.meta[target]
          component == h[eng.model].comps[<<meta.entity, meta.component>>]
          i == FirstFrom(component.influences, source)
      IN  IF i # 0
          THEN LET inf == component.influences[i]
               IN  ReplaceInfluence(h, eng, target, i,
                       InfluenceModel(inf.from, inf.coef, inf.kind, inf.function,
                                      enabled))
          ELSE [exc |-> "No influence", heap |-> h, eng |-> eng]

\* self._state.get(key, 1.0)
StateGetOne(eng, key) == IF key \in DOMAIN eng.state THEN eng.state[key] ELSE One

\* self._state.get(key, 0.0)
StateGet(eng, key) == IF key \in DOMAIN eng.state THEN eng.state[key] ELSE Zero

\* a resolution that knows the literal "self" only and looks a bare name up as
\* it is written
SourceValueUnqualified(eng, variable, source_var) ==
    IF source_var = <<"self">> THEN eng.state[variable]
    ELSE StateGet(eng, source_var)

\* the source value an influence on variable reads
SourceValue(eng, variable, source_var) ==
    IF source_var = <<"self">> \/ source_var = <<variable[Len(variable)]>>
    THEN eng.state[variable]
    ELSE IF Len(source_var) > 1
         THEN StateGet(eng, source_var)
         ELSE StateGet(eng, <<eng.meta[variable].entity>> \o source_var)

\* a kind modifier whose negative kind flips the sign of the result
ApplyKindFlipping(influence, raw, source_value, current) ==
    IF raw.exc # "" THEN raw
    ELSE CASE influence.kind = "negative" -> Ok(Neg(raw.val))
           [] influence.kind = "decay" -> Ok(Mul(influence.coef, current))
           [] influence.kind = "ratio" ->
                IF current # Zero
                THEN Ok(Mul(influence.coef, Quot(source_value, current)))
                ELSE Ok(Zero)
           [] OTHER -> raw

\* the kind modifier applied to the result raw of the influence function
ApplyKind(influence, raw, source_value, current) ==
    IF raw.exc # "" THEN raw
    ELSE CASE influence.kind = "negative" -> Ok(Neg(Abs(raw.val)))
           [] influence.kind = "decay" -> Ok(Mul(influence.coef, current))
           [] influence.kind = "ratio" ->
                IF current # Zero
                THEN Ok(Mul(influence.coef, Quot(source_value, current)))
                ELSE Ok(Zero)
           [] OTHER -> raw

\* the contribution of an enabled influence whose source value is given
ContributionOf(eng, variable, influence, source_value) ==
    ApplyKind(influence,
              INFLUENCE_FUNCTIONS(influence.function, source_value, influence.coef),
              source_value, eng.state[variable])

\* what one enabled influence adds to the derivative of variable
Contribution(eng, variable, influence) ==
    ContributionOf(eng, variable, influence,
                   SourceValue(eng, variable, influence.from))

\* the loop of _compute_derivative from influence i on, derivative so far given
RECURSIVE DerivativeLoop(_, _, _, _)
Accumulate(eng, variable, i, derivative, c) ==
    IF c.exc # "" THEN c
    ELSE DerivativeLoop(eng, variable, i + 1, Add(derivative, c.val))

DerivativeLoop(eng, variable, i, derivative) ==
    IF i > Len(eng.meta[variable].influences) THEN Ok(derivative)
    ELSE IF ~eng.meta[variable].influences[i].enabled
         THEN DerivativeLoop(eng, variable, i + 1, derivative)
         ELSE Accumulate(eng, variable, i, derivative,
                         Contribution(eng, variable, eng.meta[variable].influences[i]))

compute_derivative(eng, variable) == DerivativeLoop(eng, variable, 1, Zero)

apply_bounds(eng, variable, value) == Clamp(eng.meta[variable], value)

\* loops that update every variable, whatever its type
EvolvesAlways(eng, variable) == TRUE

\* the type tests of both loops of step: state and computed variables are
\* given a derivative and a new value, constants are skipped
Evolves(eng, variable) == eng.meta[variable].type \in {"state", "computed"}

\* Phase 1 of step from position i of the iteration order on
RECURSIVE Phase1(_, _, _, _)
StoreDerivative(eng, order, i, derivatives, d) ==
    IF d.exc # "" THEN [exc |-> d.exc, derivatives |-> derivatives]
    ELSE Phase1(eng, order, i + 1, derivatives @@ (order[i] :> d.val))

Phase1(eng, order, i, derivatives) ==
    IF i > Len(order) THEN [exc |-> "", derivatives |-> derivatives]
    ELSE IF Evolves(eng, order[i])
         THEN StoreDerivative(eng, order, i, derivatives,
                              compute_derivative(eng, order[i]))
         ELSE Phase1(eng, order, i + 1, derivatives)

\* the new value of a computed variable scaled by dt like that of a state variable
NewValueScaled(eng, dt, variable, derivative) ==
    Add(eng.state[variable], Mul(dt, derivative))

\* the new value of a state or computed variable, before bounds
NewValue(eng, dt, variable, derivative) ==
    IF eng.meta[variable].type = "state"
    THEN Add(eng.state[variable], Mul(dt, derivative))
    ELSE Add(eng.state[variable], derivative)

\* Phase 2 of step from position i of the iteration order on
RECURSIVE Phase2(_, _, _, _, _, _)
Phase2(eng, dt, order, i, derivatives, new_values) ==
    IF i > Len(order) THEN new_values
    ELSE IF Evolves(eng, order[i])
         THEN Phase2(eng, dt, order, i + 1, derivatives,
                     new_values @@
                     (order[i] :> apply_bounds(eng, order[i],
                                      NewValue(eng, dt, order[i], derivatives[order[i]]))))
         ELSE Phase2(eng, dt, order, i + 1, derivatives, new_values)

\* Phase 3 of step
Phase3(eng, new_values) ==
    [eng EXCEPT !.state = [k \in DOMAIN eng.state \cup DOMAIN new_values |->
                              IF k \in DOMAIN new_values THEN new_values[k]
                              ELSE eng.state[k]]]

\* a step that writes each new value at once, so that later derivatives read it
RECURSIVE step_in_place(_, _, _, _)
WriteInPlace(eng, dt, order, i, d) ==
    IF d.exc # "" THEN [exc |-> d.exc, eng |-> eng]
    ELSE step_in_place(
             [eng EXCEPT !.state[order[i]] =
                 apply_bounds(eng, order[i], NewValue(eng, dt, order[i], d.val))],
             dt, order, i + 1)

step_in_place(eng, dt, order, i) ==
    IF i > Len(order) THEN [exc |-> "", eng |-> eng]
    ELSE IF ~Evolves(eng, order[i])
         THEN step_in_place(eng, dt, order, i + 1)
         ELSE WriteInPlace(eng, dt, order, i, compute_derivative(eng, order[i]))

\* a step that, when a derivative fails, still writes the new values of the
\* variables whose derivative it had computed before
CommitComputed(eng, dt, order, i, p1) ==
    IF p1.exc # ""
    THEN [exc |-> p1.exc,
          eng |-> Phase3(eng, [v \in DOMAIN p1.derivatives |->
                     apply_bounds(eng, v, NewValue(eng, dt, v, p1.derivatives[v]))])]
    ELSE [exc |-> "",
          eng |-> Phase3(eng, Phase2(eng, dt, order, i, p1.derivatives, <<>>))]

\* Phases 2 and 3, given what Phase 1 returned or raised
Commit(eng, dt, order, i, p1) ==
    IF p1.exc # "" THEN [exc |-> p1.exc, eng |-> eng]
    ELSE [exc |-> "",
          eng |-> Phase3(eng, Phase2(eng, dt, order, i, p1.derivatives, <<>>))]

\* step(dt) with dt given, the metadata dict iterated in the given order from i
step_with(eng, dt, order, i) ==
    Commit(eng, dt, order, i, Phase1(eng, order, i, <<>>))

\* step(dt): dt = None takes the model's dt
step(h, eng, dt) ==
    step_with(eng, IF dt = None THEN h[eng.model].simulation.dt ELSE dt, eng.order, 1)

(***************************************************************************)
(* run.  A callback is modelled by what it does when invoked:              *)
(*   "none"    no callback is passed                                       *)
(*   "observe" it returns normally                                         *)
(*   "mutate"  it overwrites every value of the mapping it is passed       *)
(*   "raise"   it raises at its invocation number callback.at              *)
(* seen is the log of the invocations made: the step number and the state  *)
(* passed, and the number of snapshots the history held at that moment.    *)
(***************************************************************************)
NoCallback == [kind |-> "none", at |-> 0]

\* history.append(state): the list keeps the very dict that is written to later
Shared(mapping, written) == written

\* dict(mapping): a dict of its own with the items of mapping.  One of the two
\* dicts is written to afterwards and then holds written; the other one still
\* holds the items the copy was made of.
dict(mapping, written) == mapping

\* the mapping a callback was passed, once the callback has returned
Called(callback, state) ==
    IF callback.kind = "mutate" THEN [k \in DOMAIN state |-> <<-7, 1>>] ELSE state

SimulationResult(history, time_points, final_state, steps, dt) ==
    [history |-> history, time_points |-> time_points, final_state |-> final_state,
     metadata |-> [steps |-> steps, dt |-> dt, total_time |-> Mul(<<steps, 1>>, dt)]]

NoResult == SimulationResult(<<>>, <<>>, <<>>, 0, Zero)

\* the loop of run from iteration i (0-based) on
RECURSIVE RunLoop(_, _, _, _, _, _, _, _)
\* a loop that catches what the callback raises and goes on
AfterCallbackCaught(s, i, steps, dt, callback, history, time_points, seen) ==
    RunLoop(s.eng, i + 1, steps, dt, callback, history, time_points, seen)

\* the rest of iteration i once the callback, if any, was invoked
AfterCallback(s, i, steps, dt, callback, history, time_points, seen) ==
    IF callback.kind = "raise" /\ callback.at = i + 1
    THEN [exc |-> "CallbackError", eng |-> s.eng, seen |-> seen, value |-> NoResult]
    ELSE RunLoop([s.eng EXCEPT !.state = dict(s.eng.state,
                                              Called(callback, get_state(s.eng)))],
                 i + 1, steps, dt, callback, history, time_points, seen)

\* the rest of iteration i once self.step(dt) returned or raised s
AfterStep(s, i, steps, dt, callback, history, time_points, seen) ==
    IF s.exc # ""
    THEN [exc |-> s.exc, eng |-> s.eng, seen |-> seen, value |-> NoResult]
    ELSE AfterCallback(s, i, steps, dt, callback,
                       Append(history, dict(get_state(s.eng),
                                            Called(callback, get_state(s.eng)))),
                       Append(time_points, Mul(<<i + 1, 1>>, dt)),
                       IF callback.kind = "none" THEN seen
                       ELSE Append(seen, [step |-> i + 1, state |-> get_state(s.eng),
                                          recorded |-> Len(history) + 1]))

RunLoop(eng, i, steps, dt, callback, history, time_points, seen) ==
    IF i >= steps
    THEN [exc |-> "", eng |-> eng, seen |-> seen,
          value |-> SimulationResult(history, time_points, get_state(eng), steps, dt)]
    ELSE AfterStep(step_with(eng, dt, eng.order, 1), i, steps, dt, callback,
                   history, time_points, seen)

\* a run that appends nothing before the loop
run_unrecorded(h, eng, steps, dt, callback) ==
    RunLoop(eng, 0,
            IF steps = -1 THEN h[eng.model].simulation.steps ELSE steps,
            IF dt = None THEN h[eng.model].simulation.dt ELSE dt,
            callback, <<>>, <<>>, <<>>)

\* a run whose lists are created once and shared by all calls, so that a call
\* appends to what the call before returned
run_accumulating(h, eng, steps, dt, callback) ==
    RunLoop(eng, 0,
            IF steps = -1 THEN h[eng.model].simulation.steps ELSE steps,
            IF dt = None THEN h[eng.model].simulation.dt ELSE dt,
            callback, Append(result.value.history, get_state(eng)),
            Append(result.value.time_points, Zero), <<>>)

\* a run that starts from the initial state
run_resetting(h, eng, steps, dt, callback) ==
    RunLoop(initialize_state(h, eng), 0,
            IF steps = -1 THEN h[eng.model].simulation.steps ELSE steps,
            IF dt = None THEN h[eng.model].simulation.dt ELSE dt,
            callback, <<get_state(initialize_state(h, eng))>>, <<Zero>>, <<>>)

\* run(steps, dt, callback): steps = -1 stands for None, dt = None for None
run(h, eng, steps, dt, callback) ==
    RunLoop(eng, 0,
            IF steps = -1 THEN h[eng.model].simulation.steps ELSE steps,
            IF dt = None THEN h[eng.model].simulation.dt ELSE dt,
            callback, <<get_state(eng)>>, <<Zero>>, <<>>)

\* a reset that leaves the engine as it is
reset_keeping(h, eng) == eng

reset(h, eng) == initialize_state(h, eng)

get_variables(eng) == DOMAIN eng.state

get_influences_for(eng, variable) ==
    IF variable \notin DOMAIN eng.meta THEN <<>>
    ELSE eng.meta[variable].influences

(***************************************************************************)
(* CONVENIENCE FUNCTION                                                    *)
(* parameter_changes is the sequence of the dict's <<variable, value>>     *)
(* items; an influence change is [target, source, has_coef, coef,          *)
(* has_enabled, enabled].                                                  *)
(***************************************************************************)
RECURSIVE ApplyParameterChanges(_, _, _)
NextParameterChange(r, changes, i) ==
    IF r.exc # "" THEN r ELSE ApplyParameterChanges(r.eng, changes, i + 1)

ApplyParameterChanges(eng, changes, i) ==
    IF i > Len(changes) THEN [exc |-> "", eng |-> eng]
    ELSE NextParameterChange(set_parameter(eng, changes[i][1], changes[i][2]),
                             changes, i)

\* the same with elif: a change that carries a coef is not toggled
ApplyEnabledElse(r1, change) ==
    IF r1.exc = "" /\ change.has_enabled /\ ~change.has_coef
    THEN toggle_influence(r1.heap, r1.eng, change.target, change.source,
                          change.enabled)
    ELSE r1

\* the call of toggle_influence of a change, after r1
ApplyEnabled(r1, change) ==
    IF r1.exc = "" /\ change.has_enabled
    THEN toggle_influence(r1.heap, r1.eng, change.target, change.source,
                          change.enabled)
    ELSE r1

\* the call of set_influence_coef of a change
ApplyCoef(h, eng, change) ==
    IF change.has_coef
    THEN set_influence_coef(h, eng, change.target, change.source, change.coef)
    ELSE [exc |-> "", heap |-> h, eng |-> eng]

RECURSIVE ApplyInfluenceChanges(_, _, _, _)
NextInfluenceChange(r2, changes, i) ==
    IF r2.exc # "" THEN r2
    ELSE ApplyInfluenceChanges(r2.heap, r2.eng, changes, i + 1)

ApplyInfluenceChanges(h, eng, changes, i) ==
    IF i > Len(changes) THEN [exc |-> "", heap |-> h, eng |-> eng]
    ELSE NextInfluenceChange(ApplyEnabled(ApplyCoef(h, eng, changes[i]), changes[i]),
                             changes, i)

\* what simulate returns or raises, given r of run and the heap then
WithHeap(r, h) == [exc |-> r.exc, value |-> r.value, heap |-> h]

\* the engine's run of simulate, after the changes c
SimulateRun(h, c, steps, dt) ==
    IF c.exc # "" THEN [exc |-> c.exc, value |-> NoResult, heap |-> c.heap]
    ELSE WithHeap(run(c.heap, c.eng, steps, dt, NoCallback), c.heap)

\* the influence changes of simulate, after the parameter changes p
SimulateInfluences(h1, p, influence_changes) ==
    IF p.exc # "" THEN [exc |-> p.exc, heap |-> h1, eng |-> p.eng]
    ELSE ApplyInfluenceChanges(h1, p.eng, influence_changes, 1)

\* simulate, once its engine is constructed
SimulateWith(h, new, parameter_changes, influence_changes, steps, dt) ==
    SimulateRun(h,
        SimulateInfluences(new.heap,
            ApplyParameterChanges(new.eng, parameter_changes, 1), influence_changes),
        steps, dt)

\* the heap once the local engine of simulate is garbage
Collect(h, r) ==
    [exc |-> r.exc, value |-> r.value, heap |-> [ref \in DOMAIN h |-> r.heap[ref]]]

\* simulate(model, parameter_changes, influence_changes, steps, dt)
simulate(h, model, parameter_changes, influence_changes, steps, dt, fresh) ==
    Collect(h, SimulateWith(h, SimulationEngine(h, model, fresh), parameter_changes,
                            influence_changes, steps, dt))

(***************************************************************************)
(* SystemModelGenerator of src/generator.py.  A text (an LLM response, the *)
(* JSON string extracted from it) is the sequence of its tokens: a code    *)
(* fence, "{", "}", "model" for the body of a document that validates as a *)
(* SystemModel, "bad" for the body of one that does not, "w" for any other *)
(* words.  Whitespace is not held, so strip() has nothing to remove.       *)
(***************************************************************************)
Fence == "fence"

Positions(text, token) == {i \in 1..Len(text) : text[i] = token}
Least(S) == CHOOSE i \in S : \A j \in S : i <= j
Greatest(S) == CHOOSE i \in S : \A j \in S : j <= i

\* the text between the first two fences; else from the first "{" to the last
\* "}"; else the response as it is
extract_json_from_response(response) ==
    LET fences == Positions(response, Fence)
        start_idx == Positions(response, "{")
        end_idx == Positions(response, "}")
    IN  IF Cardinality(fences) >= 2
        THEN SubSeq(response, Least(fences) + 1,
                    Least(fences \ {Least(fences)}) - 1)
        ELSE IF start_idx # {} /\ end_idx # {} /\ Greatest(end_idx) > Least(start_idx)
        THEN SubSeq(response, Least(start_idx), Greatest(end_idx))
        ELSE response

\* json.loads(json_str): the data of a well-formed document
json_loads(json_str) ==
    IF Len(json_str) = 3 /\ json_str[1] = "{" /\ json_str[3] = "}"
       /\ json_str[2] \in {"model", "bad"}
    THEN Ok(json_str[2])
    ELSE Raise("JSONDecodeError")

\* SystemModel.model_validate(data)
model_validate(data) ==
    IF data = "model" THEN Ok("SystemModel") ELSE Raise("ValidationError")

REPAIR_PROMPT_TEMPLATE(error_message) ==
    <<"The previous output was invalid.", error_message,
      "Fix and regenerate valid JSON.">>

\* what self._llm_client.generate does in one call: it raises, or it returns
\* a response
LLMRaises == [raised |-> TRUE, response |-> <<>>]
LLMReturns(response) == [raised |-> FALSE, response |-> response]

\* the try block after the LLM call: extraction, parsing, validation
Validated(parsed) == IF parsed.exc # "" THEN parsed ELSE model_validate(parsed.val)
Parsed(outcome) ==
    IF outcome.raised THEN Raise("Exception")
    ELSE Validated(json_loads(extract_json_from_response(outcome.response)))

\* the error_msg of the except clause that catches exc
error_msg(exc, outcome) ==
    CASE exc = "JSONDecodeError" -> <<"JSON parsing error", outcome.response>>
      [] exc = "ValidationError" -> <<"Pydantic validation error", outcome.response>>
      [] OTHER -> <<"Unexpected error", outcome.response>>

\* the user_prompt of an attempt
user_prompt(g) ==
    IF g.last_error = None THEN [text |-> g.user_text, repair |-> None]
    ELSE [text |-> g.user_text, repair |-> REPAIR_PROMPT_TEMPLATE(g.last_error)]

\* a generator: its max_retries, the locals of generate (user_text, attempt,
\* last_error, last_response), where generate stands (pc) and what it returned
\* or raised (value); sent is the log of the user prompts the LLM client was
\* called with, outcomes the log of what those calls did
SystemModelGenerator(max_retries) ==
    [pc |-> "idle", max_retries |-> max_retries, user_text |-> "", attempt |-> 0,
     last_error |-> None, last_response |-> None, value |-> None,
     sent |-> <<>>, outcomes |-> <<>>]

\* a loop over range(1, max_retries + 2)
InRangeInclusive(g) == g.attempt <= g.max_retries + 1

\* attempt in range(1, self._max_retries + 1)
InRange(g) == g.attempt <= g.max_retries

\* the end of an attempt whose try block gave r
EndAttempt(g, outcome, r) ==
    IF r.exc = "" THEN [g EXCEPT !.pc = "returned", !.value = r.val]
    ELSE [g EXCEPT !.last_error = error_msg(r.exc, outcome), !.attempt = @ + 1]

\* one iteration of the loop of generate, the LLM call doing outcome
AttemptWith(g, outcome) ==
    EndAttempt([g EXCEPT !.sent = Append(@, user_prompt(g)),
                         !.outcomes = Append(@, outcome),
                         !.last_response = IF outcome.raised THEN @
                                           ELSE outcome.response],
               outcome, Parsed(outcome))

\* the ValueError raised after the loop
error_details(g) ==
    <<"Failed to generate valid SystemModel", g.max_retries, g.last_error>>
    \o (IF g.last_response = None THEN <<>> ELSE <<g.last_response>>)

(***************************************************************************)
(* The models the caller may hold.                                         *)
(***************************************************************************)
AX == <<"A", "x">>
AY == <<"A", "y">>
ALevel == <<"A", "level">>
BDriver == <<"B", "driver">>
BGauge == <<"B", "gauge">>

CLevel == <<"C", "level">>
CStock == <<"C", "stock">>
CRate == <<"C", "rate">>

\* two state variables that influence each other, one bounded, one not
PairModel ==
    [order |-> <<AX, AY>>,
     comps |->
        (AX :> ComponentModel("state", Half, Zero, One,
                  <<InfluenceModel(<<"y">>, One, "positive", "linear", TRUE),
                    InfluenceModel(<<"x">>, <<-1, 2>>, "decay", "linear", TRUE)>>))
        @@
        (AY :> ComponentModel("state", <<1, 4>>, None, None,
                  <<InfluenceModel(AX, <<-1, 1>>, "positive", "linear", TRUE)>>)),
     simulation |-> SimulationModel(Half, 2)]

\* a state variable driven by a constant of another entity; the constant and a
\* computed variable hold influences too
DriverModel ==
    [order |-> <<ALevel, BDriver, BGauge>>,
     comps |->
        (ALevel :> ComponentModel("state", <<1, 5>>, None, One,
                  <<InfluenceModel(BDriver, Half, "positive", "linear", TRUE)>>))
        @@
        (BDriver :> ComponentModel("constant", <<4, 5>>, Zero, None,
                  <<InfluenceModel(ALevel, One, "positive", "linear", TRUE)>>))
        @@
        (BGauge :> ComponentModel("computed", Zero, None, None,
                  <<InfluenceModel(<<"driver">>, One, "positive", "threshold", TRUE),
                    InfluenceModel(<<"driver">>, Half, "negative", "linear", FALSE)>>)),
     simulation |-> SimulationModel(One, 1)]

\* DriverModel's pair after the parameter override of simulate_batch, which
\* writes the component's initial without looking at its bounds
OverrideModel ==
    [order |-> <<ALevel, BDriver>>,
     comps |->
        (ALevel :> ComponentModel("state", <<5, 1>>, Zero, One,
                  <<InfluenceModel(BDriver, Half, "positive", "linear", TRUE)>>))
        @@
        (BDriver :> ComponentModel("constant", <<4, 5>>, None, None, <<>>)),
     simulation |-> SimulationModel(One, 1)]

\* a level that follows a constant rate (a second influence from the rate is
\* disabled), and after it in the iteration order a stock fed by the same rate
\* through the division function and, under the same source string, through
\* a linear one; the rate may be set to -1
DivisionModel ==
    [order |-> <<CLevel, CStock, CRate>>,
     comps |->
        (CLevel :> ComponentModel("state", Half, Zero, One,
                  <<InfluenceModel(<<"rate">>, One, "positive", "linear", FALSE),
                    InfluenceModel(CRate, One, "positive", "linear", TRUE)>>))
        @@
        (CStock :> ComponentModel("state", Zero, None, None,
                  <<InfluenceModel(CRate, One, "positive", "division", TRUE),
                    InfluenceModel(CRate, Half, "positive", "linear", TRUE)>>))
        @@
        (CRate :> ComponentModel("constant", Half, <<-1, 1>>, One, <<>>)),
     simulation |-> SimulationModel(Half, 2)]

Models == {PairModel, DriverModel, OverrideModel, DivisionModel}

\* the models of one edge: a state variable T.x without bounds that holds one
\* enabled influence, and a constant T.y.  The influence reads T.x itself
\* ("self", or its own bare name), T.y (bare or qualified) or a variable that
\* does not exist (bare or qualified), with every kind and every function of
\* models.py
TX == <<"T", "x">>
TY == <<"T", "y">>

EdgeModel(from, coef, kind, function, x, y) ==
    [order |-> <<TX, TY>>,
     comps |->
        (TX :> ComponentModel("state", x, None, None,
                  <<InfluenceModel(from, coef, kind, function, TRUE)>>))
        @@ (TY :> ComponentModel("constant", y, None, None, <<>>)),
     simulation |-> SimulationModel(<<1, 10>>, 1)]

DanglingSources == {<<"ghost">>, <<"U", "ghost">>}
EdgeSources == {<<"self">>, <<"x">>, <<"y">>, TY} \cup DanglingSources
EdgeCoefs == {<<-1, 5>>, Half}
Kinds == {"positive", "negative", "decay", "ratio"}
Functions == {"linear", "sigmoid", "threshold", "division"}
EdgeTargetValues == {Zero, Half}
EdgeSourceValues == {<<-1, 1>>, <<2, 1>>}

EdgeModels ==
    {EdgeModel(from, coef, kind, function, x, y) :
        from \in EdgeSources, coef \in EdgeCoefs, kind \in Kinds,
        function \in Functions, x \in EdgeTargetValues, y \in EdgeSourceValues}

(***************************************************************************)
(* The arguments the caller passes.                                        *)
(***************************************************************************)
CallerRef == "caller"
LocalRef == "local"
Engines == {"e1", "e2"}

UnknownName == <<"A", "nope">>
ParamValues == {<<-1, 1>>, Half, <<5, 1>>}
NewCoefs == {<<-3, 4>>}
StepDts == {None, Half}
RunSteps == {-1, 0, 2}

\* the callbacks passed to run, and the (steps, callback) pairs run is called with
Callbacks ==
    {[kind |-> "observe", at |-> 0], [kind |-> "mutate", at |-> 0],
     [kind |-> "raise", at |-> 1]}
RunArgs == {<<n, NoCallback>> : n \in RunSteps} \cup {<<2, cb>> : cb \in Callbacks}

\* a source string that names the same variable as from_ in another spelling
OtherSpelling(target, from) ==
    IF Len(from) > 1 THEN <<from[Len(from)]>> ELSE <<target[1]>> \o from

\* the (target, source) pairs passed to the influence setters: every source
\* string a target holds, another spelling of its first one, an unknown target
InfluencePairs(m) ==
    {<<UnknownName, <<"x">>>>}
    \cup UNION {{<<t, m.comps[t].influences[i].from>> :
                    i \in 1..Len(m.comps[t].influences)} : t \in Range(m.order)}
    \cup {<<t, OtherSpelling(t, m.comps[t].influences[1].from)>> :
             t \in {u \in Range(m.order) : m.comps[u].influences # <<>>}}

\* a change of the influence of target from source with both coef and enabled
\* given: a new coefficient, and the opposite of the flag the first influence
\* of target has in the model
ChangeOf(m, target, source) ==
    [target |-> target, source |-> source, has_coef |-> TRUE, coef |-> <<-3, 4>>,
     has_enabled |-> TRUE, enabled |-> ~m.comps[target].influences[1].enabled]

\* the <<parameter_changes, influence_changes>> passed to simulate: none, valid
\* ones, an unknown variable, a second change under another spelling of the
\* source (an influence that exists in no model but DivisionModel), a change
\* that carries a coef only
SimulateChanges(m) ==
    LET first == m.order[1]
        from == m.comps[first].influences[1].from
    IN  {<<<<>>, <<>>>>,
         <<<<<<first, <<5, 1>>>>>>, <<ChangeOf(m, first, from)>>>>,
         <<<<<<first, Half>>, <<UnknownName, Half>>>>, <<ChangeOf(m, first, from)>>>>,
         <<<<<<first, <<5, 1>>>>>>,
           <<ChangeOf(m, first, from),
             ChangeOf(m, first, OtherSpelling(first, from))>>>>,
         <<<<>>, <<[ChangeOf(m, first, from) EXCEPT !.has_enabled = FALSE]>>>>}

MaxCalls == 3
MaxEdgeSteps == 1

\* the texts passed to generate and the responses the LLM gives: a document
\* that validates, bare, fenced or within words; one that does not validate; a
\* text that is no JSON
Texts == {"T1", "T2"}
Responses ==
    {<<"{", "model", "}">>,
     <<Fence, "{", "model", "}", Fence>>,
     <<"w", "{", "model", "}", "w">>,
     <<"{", "bad", "}">>,
     <<"{", "w">>}
LLMOutcomes == {LLMRaises} \cup {LLMReturns(r) : r \in Responses}
MaxRetries == 3

(***************************************************************************)
(* The state machine.  Init is the state after the caller has built its    *)
(* model and constructed the first engine from it.                         *)
(***************************************************************************)
Call(op, e) ==
    [op |-> op, e |-> e, variable |-> <<>>, source |-> <<>>, value |-> Zero,
     enabled |-> FALSE, steps |-> 0, dt |-> None, callback |-> NoCallback,
     parameter_changes |-> <<>>, influence_changes |-> <<>>]

NoValue(exc) == [exc |-> exc, value |-> NoResult, seen |-> <<>>]

Init ==
    \E m \in Models :
        LET new == SimulationEngine((CallerRef :> m), CallerRef, "e1")
        IN  /\ heap = new.heap
            /\ engines = [e \in Engines |-> IF e = "e1" THEN new.eng ELSE NoEngine]
            /\ result = [exc |-> "", value |-> NoResult, seen |-> <<>>]
            /\ lastCall = Call("SimulationEngine", "e1")
            /\ pre = [heap |-> (CallerRef :> m), engines |-> [e \in Engines |-> NoEngine]]
            /\ calls = 0
            /\ gen = SystemModelGenerator(0)

Live(e) == engines[e].model # ""

\* what every call does to the history variables
Record(call) ==
    /\ calls < MaxCalls
    /\ calls' = calls + 1
    /\ lastCall' = call
    /\ pre' = [heap |-> heap, engines |-> engines]
    /\ UNCHANGED gen

\* a call on engine e ends with r: the heap and engine it leaves, what it raised
Returns(e, r) ==
    /\ heap' = r.heap
    /\ engines' = [engines EXCEPT ![e] = r.eng]
    /\ result' = NoValue(r.exc)

\* the same for a call that cannot touch the heap
ReturnsEngine(e, r) ==
    /\ engines' = [engines EXCEPT ![e] = r.eng]
    /\ result' = NoValue(r.exc)
    /\ UNCHANGED heap

Construct(e) ==
    /\ ~Live(e)
    /\ Record(Call("SimulationEngine", e))
    /\ Returns(e, SimulationEngine(heap, CallerRef, e))

SetParameter(e, variable, value) ==
    /\ Live(e)
    /\ Record([Call("set_parameter", e) EXCEPT !.variable = variable, !.value = value])
    /\ ReturnsEngine(e, set_parameter(engines[e], variable, value))

SetInfluenceCoef(e, target, source, new_coef) ==
    /\ Live(e)
    /\ Record([Call("set_influence_coef", e) EXCEPT
                  !.variable = target, !.source = source, !.value = new_coef])
    /\ Returns(e, set_influence_coef(heap, engines[e], target, source, new_coef))

ToggleInfluence(e, target, source, enabled) ==
    /\ Live(e)
    /\ Record([Call("toggle_influence", e) EXCEPT
                  !.variable = target, !.source = source, !.enabled = enabled])
    /\ Returns(e, toggle_influence(heap, engines[e], target, source, enabled))

Step(e, dt) ==
    /\ Live(e)
    /\ Record([Call("step", e) EXCEPT !.dt = dt])
    /\ ReturnsEngine(e, step(heap, engines[e], dt))

\* run ends with r
RunReturns(e, r) ==
    /\ engines' = [engines EXCEPT ![e] = r.eng]
    /\ result' = [exc |-> r.exc, value |-> r.value, seen |-> r.seen]
    /\ UNCHANGED heap

Run(e, steps, dt, callback) ==
    /\ Live(e)
    /\ Record([Call("run", e) EXCEPT !.steps = steps, !.dt = dt, !.callback = callback])
    /\ RunReturns(e, run(heap, engines[e], steps, dt, callback))

Reset(e) ==
    /\ Live(e)
    /\ Record(Call("reset", e))
    /\ engines' = [engines EXCEPT ![e] = reset(heap, engines[e])]
    /\ result' = NoValue("")
    /\ UNCHANGED heap

\* simulate ends with r
SimulateReturns(r) ==
    /\ heap' = r.heap
    /\ result' = [exc |-> r.exc, value |-> r.value, seen |-> <<>>]
    /\ UNCHANGED engines

Simulate(parameter_changes, influence_changes, steps, dt) ==
    /\ Record([Call("simulate", LocalRef) EXCEPT
                  !.steps = steps, !.dt = dt,
                  !.parameter_changes = parameter_changes,
                  !.influence_changes = influence_changes])
    /\ SimulateReturns(simulate(heap, CallerRef, parameter_changes, influence_changes,
                                steps, dt, LocalRef))

Next ==
    \/ \E e \in Engines : Construct(e)
    \/ \E e \in Engines, variable \in Range(heap[CallerRef].order) \cup {UnknownName},
          value \in ParamValues : SetParameter(e, variable, value)
    \/ \E e \in Engines, p \in InfluencePairs(heap[CallerRef]), c \in NewCoefs :
          SetInfluenceCoef(e, p[1], p[2], c)
    \/ \E e \in Engines, p \in InfluencePairs(heap[CallerRef]), b \in BOOLEAN :
          ToggleInfluence(e, p[1], p[2], b)
    \/ \E e \in Engines, dt \in StepDts : Step(e, dt)
    \/ \E e \in Engines, a \in RunArgs : Run(e, a[1], None, a[2])
    \/ \E e \in Engines : Reset(e)
    \/ \E c \in SimulateChanges(heap[CallerRef]) : Simulate(c[1], c[2], -1, None)

Spec == Init /\ [][Next]_vars

(***************************************************************************)
(* The state machine of one edge: an engine is constructed from a model of *)
(* one edge and stepped.                                                   *)
(***************************************************************************)
EdgeInit ==
    \E m \in EdgeModels :
        LET new == SimulationEngine((CallerRef :> m), CallerRef, "e1")
        IN  /\ heap = new.heap
            /\ engines = [e \in Engines |-> IF e = "e1" THEN new.eng ELSE NoEngine]
            /\ result = [exc |-> "", value |-> NoResult, seen |-> <<>>]
            /\ lastCall = Call("SimulationEngine", "e1")
            /\ pre = [heap |-> (CallerRef :> m), engines |-> [e \in Engines |-> NoEngine]]
            /\ calls = 0
            /\ gen = SystemModelGenerator(0)

\* the engine of one edge is stepped MaxEdgeSteps times at most
EdgeStep(dt) ==
    /\ calls < MaxEdgeSteps
    /\ Step("e1", dt)

EdgeNext == \E dt \in StepDts : EdgeStep(dt)

EdgeSpec == EdgeInit /\ [][EdgeNext]_vars

(***************************************************************************)
(* The state machine of the generator: a generator is constructed, generate *)
(* is called once, and each step is one iteration of its loop.  No engine  *)
(* exists.                                                                 *)
(***************************************************************************)
simvars == <<heap, engines, result, lastCall, pre, calls>>

GenInit ==
    /\ \E n \in 0..MaxRetries : gen = SystemModelGenerator(n)
    /\ heap = <<>>
    /\ engines = [e \in Engines |-> NoEngine]
    /\ result = NoValue("")
    /\ lastCall = Call("", "")
    /\ pre = [heap |-> <<>>, engines |-> [e \in Engines |-> NoEngine]]
    /\ calls = 0

Generate(user_text) ==
    /\ gen.pc = "idle"
    /\ gen' = [gen EXCEPT !.pc = "loop", !.user_text = user_text, !.attempt = 1]
    /\ UNCHANGED simvars

Attempt(outcome) ==
    /\ gen.pc = "loop"
    /\ InRange(gen)
    /\ gen' = AttemptWith(gen, outcome)
    /\ UNCHANGED simvars

Exhausted ==
    /\ gen.pc = "loop"
    /\ ~InRange(gen)
    /\ gen' = [gen EXCEPT !.pc = "raised", !.value = error_details(gen)]
    /\ UNCHANGED simvars

GenNext ==
    \/ \E user_text \in Texts : Generate(user_text)
    \/ \E outcome \in LLMOutcomes : Attempt(outcome)
    \/ Exhausted

GenSpec == GenInit /\ [][GenNext]_vars

(***************************************************************************)
(* Properties.  They read the call just made (lastCall), the heap and the  *)
(* engines before it (pre) and after it.                                   *)
(***************************************************************************)
\* the engine the last call was made on, before and after the call
Before == pre.engines[lastCall.e]
After == engines[lastCall.e]
OnEngine(op) == lastCall.op = op /\ lastCall.e \in Engines
Succeeded == result.exc = ""

\* the orders in which the variables of a sequence can be visited
Orders(order) ==
    {p \in [1..Len(order) -> Range(order)] :
        \A i, j \in 1..Len(order) : p[i] = p[j] => i = j}

\* the step size a call of step or run works with
DtOf(eng, dt) == IF dt = None THEN heap[eng.model].simulation.dt ELSE dt

\* C1: step is a synchronous update.  Whatever the order in which the
\* variables are visited, one step from the state before the call gives the
\* state after it; the same holds between consecutive snapshots of a run.
C1_StepSynchronous ==
    /\ OnEngine("step") /\ Succeeded =>
         \A order \in Orders(Before.order) :
            step_with(Before, DtOf(Before, lastCall.dt), order, 1).eng.state
               = After.state
    /\ OnEngine("run") /\ Succeeded =>
         \A k \in 1..(Len(result.value.history) - 1) :
            \A order \in Orders(Before.order) :
               step_with([Before EXCEPT !.state = result.value.history[k]],
                         DtOf(Before, lastCall.dt), order, 1).eng.state
                  = result.value.history[k + 1]

\* C1 witness: a step changed two variables that read each other
C1_Witness ==
    /\ OnEngine("step") /\ Succeeded
    /\ AX \in DOMAIN After.state
    /\ After.meta[AX].influences[1].enabled /\ After.meta[AY].influences[1].enabled
    /\ After.state[AX] # Before.state[AX]
    /\ After.state[AY] # Before.state[AY]

\* value lies within the bounds a variable declares
WithinBounds(meta, value) ==
    /\ meta.min # None => ~Less(value, meta.min)
    /\ meta.max # None => ~Less(meta.max, value)

\* every state or computed variable of a snapshot lies within its bounds
SnapshotWithinBounds(eng, snapshot) ==
    \A v \in DOMAIN snapshot :
        eng.meta[v].type \in {"state", "computed"} =>
            WithinBounds(eng.meta[v], snapshot[v])

\* C2: bounds invariant.  In every state of every engine, and in every
\* snapshot of every history returned by run, each state or computed variable
\* lies within the bounds it declares.
C2_BoundsInvariant ==
    /\ \A e \in Engines : Live(e) => SnapshotWithinBounds(engines[e], engines[e].state)
    /\ OnEngine("run") =>
         \A k \in 1..Len(result.value.history) :
            SnapshotWithinBounds(After, result.value.history[k])

\* the influences of a list that are enabled, in order
Enabled(influences) == SelectSeq(influences, LAMBDA inf : inf.enabled)

\* eng with every disabled influence deleted from its metadata
WithoutDisabled(eng) ==
    [eng EXCEPT !.meta = [v \in DOMAIN eng.meta |->
        [eng.meta[v] EXCEPT !.influences = Enabled(eng.meta[v].influences)]]]

\* a successful toggle_influence(target, source, False) leaves the matched
\* influence disabled
ToggleDisables ==
    OnEngine("toggle_influence") /\ Succeeded /\ ~lastCall.enabled =>
        ~After.meta[lastCall.variable].influences[
            FirstFrom(Before.meta[lastCall.variable].influences, lastCall.source)
         ].enabled

\* only toggle_influence(target, source, True) enables a disabled influence
OnlyToggleEnables ==
    \A e \in Engines : \A v \in DOMAIN pre.engines[e].meta :
        \A i \in 1..Len(pre.engines[e].meta[v].influences) :
            /\ ~pre.engines[e].meta[v].influences[i].enabled
            /\ engines[e].meta[v].influences[i].enabled
            => /\ OnEngine("toggle_influence") /\ lastCall.e = e
               /\ lastCall.enabled
               /\ lastCall.variable = v
               /\ lastCall.source = pre.engines[e].meta[v].influences[i].from

\* the disabled influences add nothing: a step, and every step of a run, ends
\* as it would with the disabled influences deleted
DisabledContributeZero ==
    /\ OnEngine("step") =>
         step_with(WithoutDisabled(Before), DtOf(Before, lastCall.dt),
                   Before.order, 1).eng.state = After.state
    /\ OnEngine("run") /\ Succeeded =>
         \A k \in 1..(Len(result.value.history) - 1) :
            step_with(WithoutDisabled([Before EXCEPT !.state = result.value.history[k]]),
                      DtOf(Before, lastCall.dt), Before.order, 1).eng.state
               = result.value.history[k + 1]

\* a target with influences, all of them disabled
Silenced(eng, v) ==
    /\ eng.meta[v].influences # <<>>
    /\ \A i \in 1..Len(eng.meta[v].influences) : ~eng.meta[v].influences[i].enabled

\* a step, and every step of a run, leaves a silenced target as it was
SilencedUnchanged ==
    /\ OnEngine("step") =>
         \A v \in DOMAIN Before.state :
            Silenced(Before, v) => After.state[v] = Before.state[v]
    /\ OnEngine("run") /\ Succeeded =>
         \A v \in DOMAIN Before.state :
            Silenced(Before, v) =>
               \A k \in 1..Len(result.value.history) :
                  result.value.history[k][v] = Before.state[v]

\* C3: once toggle_influence(target, source, False) has succeeded, the
\* influence adds exactly zero to the derivative of its target in every later
\* step, whatever calls come between, until toggle_influence(target, source,
\* True); a target whose influences are all disabled is left unchanged by
\* every step.
C3_DisabledUntilEnabled ==
    /\ ToggleDisables
    /\ OnlyToggleEnables
    /\ DisabledContributeZero
    /\ SilencedUnchanged

\* C4: no call changes the caller's model, and a call on one engine (or a
\* call of simulate) changes neither the state, the metadata nor the model of
\* any other engine.
C4_CallerModelUntouched ==
    /\ heap[CallerRef] = pre.heap[CallerRef]
    /\ \A e \in Engines :
          e # lastCall.e /\ pre.engines[e].model # "" =>
             /\ engines[e] = pre.engines[e]
             /\ heap[engines[e].model] = pre.heap[engines[e].model]

\* C4 witness: an influence setter succeeded on one engine while another
\* engine built from the same model exists
C4_Witness ==
    /\ lastCall.op \in {"set_influence_coef", "toggle_influence"} /\ Succeeded
    /\ \A e \in Engines : Live(e)
    /\ heap[After.model] # pre.heap[After.model]
    /\ heap[After.model] # heap[CallerRef]

\* C5: step and run never change a constant, whatever influences target it
C5_ConstantsUntouched ==
    /\ OnEngine("step") \/ OnEngine("run") =>
         \A v \in DOMAIN Before.state :
            Before.meta[v].type = "constant" => After.state[v] = Before.state[v]
    /\ OnEngine("run") =>
         \A v \in DOMAIN Before.state : \A k \in 1..Len(result.value.history) :
            Before.meta[v].type = "constant" =>
               result.value.history[k][v] = Before.state[v]

\* C5 witness: a step or run went through while an enabled influence with a
\* nonzero contribution targets a constant
C5_Witness ==
    /\ (OnEngine("step") \/ OnEngine("run")) /\ Succeeded
    /\ After.state # Before.state
    /\ \E v \in DOMAIN Before.state :
          /\ Before.meta[v].type = "constant"
          /\ compute_derivative(Before, v).val # Zero

\* the value set_parameter is to store: value limited by the declared bounds
Limited(meta, value) ==
    IF meta.min # None /\ Less(value, meta.min) THEN meta.min
    ELSE IF meta.max # None /\ Less(meta.max, value) THEN meta.max
    ELSE value

\* the variable a source string of an influence on target names
Names(target, from) ==
    IF from = <<"self">> \/ from = <<target[2]>> THEN target
    ELSE IF Len(from) > 1 THEN from
    ELSE <<target[1]>> \o from

\* C6: a successful set_parameter(variable, value) stores value limited by
\* the bounds the variable declares, changes no other variable, and every
\* influence whose source is that variable reads the stored value.
C6_SetParameterClamps ==
    OnEngine("set_parameter") /\ Succeeded =>
        /\ After.state[lastCall.variable]
              = Limited(Before.meta[lastCall.variable], lastCall.value)
        /\ \A v \in DOMAIN Before.state \ {lastCall.variable} :
              After.state[v] = Before.state[v]
        /\ DOMAIN After.state = DOMAIN Before.state
        /\ \A t \in DOMAIN After.meta : \A i \in 1..Len(After.meta[t].influences) :
              Names(t, After.meta[t].influences[i].from) = lastCall.variable =>
                 SourceValue(After, t, After.meta[t].influences[i].from)
                    = Limited(Before.meta[lastCall.variable], lastCall.value)

\* C6 witness: a value above the maximum was stored as the maximum, on a
\* variable another one reads
C6_Witness ==
    /\ OnEngine("set_parameter") /\ Succeeded
    /\ Before.meta[lastCall.variable].max # None
    /\ Less(Before.meta[lastCall.variable].max, lastCall.value)
    /\ After.state[lastCall.variable] = Before.meta[lastCall.variable].max
    /\ After.state # Before.state
    /\ \E t \in DOMAIN After.meta \ {lastCall.variable} :
          \E i \in 1..Len(After.meta[t].influences) :
             Names(t, After.meta[t].influences[i].from) = lastCall.variable

\* C7: set_parameter on a name that is no key of the state raises the
\* unknown-variable error, leaves the engine as it was and adds no key
C7_UnknownParameter ==
    OnEngine("set_parameter") /\ lastCall.variable \notin DOMAIN Before.state =>
        /\ result.exc = "Unknown variable"
        /\ After = Before
        /\ DOMAIN After.state = DOMAIN Before.state

\* C7 witness: set_parameter was called with an unknown name
C7_Witness ==
    /\ OnEngine("set_parameter")
    /\ lastCall.variable \notin DOMAIN Before.state
    /\ result.exc # ""

\* the list a successful setter leaves: list with the first influence from
\* source given the new coefficient, or the new enabled flag
Recoefed(influences, source, coef) ==
    [influences EXCEPT ![FirstFrom(influences, source)].coef = coef]
Reflagged(influences, source, enabled) ==
    [influences EXCEPT ![FirstFrom(influences, source)].enabled = enabled]

\* the influences of every variable but target, and the values of all
\* variables, are as before the call
OthersAsBefore(target) ==
    /\ After.state = Before.state
    /\ DOMAIN After.meta = DOMAIN Before.meta
    /\ \A v \in DOMAIN Before.meta :
          /\ v # target => After.meta[v] = Before.meta[v]
          /\ v # target =>
                heap[After.model].comps[v] = pre.heap[Before.model].comps[v]
          /\ After.meta[v].type = Before.meta[v].type
          /\ After.meta[v].min = Before.meta[v].min
          /\ After.meta[v].max = Before.meta[v].max
    /\ heap[After.model].order = pre.heap[Before.model].order
    /\ heap[After.model].simulation = pre.heap[Before.model].simulation

\* C8: a successful set_influence_coef changes the coefficient of the matched
\* influence and nothing else, a successful toggle_influence its enabled flag
\* and nothing else: source, kind, function and position of the influence,
\* every other influence and every state value stay as they were.
C8_SettersChangeOneAttribute ==
    /\ OnEngine("set_influence_coef") /\ Succeeded =>
         /\ After.meta[lastCall.variable].influences
               = Recoefed(Before.meta[lastCall.variable].influences,
                          lastCall.source, lastCall.value)
         /\ heap[After.model].comps[lastCall.variable].influences
               = Recoefed(pre.heap[Before.model].comps[lastCall.variable].influences,
                          lastCall.source, lastCall.value)
         /\ OthersAsBefore(lastCall.variable)
    /\ OnEngine("toggle_influence") /\ Succeeded =>
         /\ After.meta[lastCall.variable].influences
               = Reflagged(Before.meta[lastCall.variable].influences,
                           lastCall.source, lastCall.enabled)
         /\ heap[After.model].comps[lastCall.variable].influences
               = Reflagged(pre.heap[Before.model].comps[lastCall.variable].influences,
                           lastCall.source, lastCall.enabled)
         /\ OthersAsBefore(lastCall.variable)

\* C8 witness: set_influence_coef gave a new coefficient to a disabled
\* influence of a target that holds more than one
C8_Witness ==
    /\ OnEngine("set_influence_coef") /\ Succeeded
    /\ Len(Before.meta[lastCall.variable].influences) > 1
    /\ After.meta[lastCall.variable] # Before.meta[lastCall.variable]
    /\ ~Before.meta[lastCall.variable].influences[
           FirstFrom(Before.meta[lastCall.variable].influences, lastCall.source)
        ].enabled

\* some influence of the list has exactly this source string
HasFrom(influences, source) ==
    \E i \in 1..Len(influences) : influences[i].from = source

\* C9: set_influence_coef and toggle_influence raise the unknown-variable
\* error for a target that is not tracked and the no-such-influence error for
\* a tracked target none of whose influences has exactly the given source
\* string; a failed call changes no influence, no metadata and no value.
C9_SetterErrors ==
    OnEngine("set_influence_coef") \/ OnEngine("toggle_influence") =>
        /\ lastCall.variable \notin DOMAIN Before.state =>
              result.exc = "Unknown target variable"
        /\ /\ lastCall.variable \in DOMAIN Before.state
           /\ ~HasFrom(Before.meta[lastCall.variable].influences, lastCall.source)
           => result.exc = "No influence"
        /\ ~Succeeded => After = Before /\ heap = pre.heap

\* C9 witness: a setter was given another spelling of a source the target
\* holds, and failed
C9_Witness ==
    /\ OnEngine("toggle_influence") /\ ~Succeeded
    /\ lastCall.variable \in DOMAIN Before.state
    /\ \E i \in 1..Len(Before.meta[lastCall.variable].influences) :
          /\ Names(lastCall.variable, Before.meta[lastCall.variable].influences[i].from)
                = Names(lastCall.variable, lastCall.source)
          /\ Before.meta[lastCall.variable].influences[i].from # lastCall.source

\* C10: the metadata index and the engine's model never diverge: for every
\* variable of every engine, the influences seen through the metadata (and
\* returned by get_influences_for) are those of the component of the model.
C10_MetadataMatchesModel ==
    \A e \in Engines : Live(e) =>
        /\ DOMAIN engines[e].meta = Range(heap[engines[e].model].order)
        /\ \A v \in DOMAIN engines[e].meta :
              /\ engines[e].meta[v].influences
                    = heap[engines[e].model].comps[v].influences
              /\ get_influences_for(engines[e], v)
                    = heap[engines[e].model].comps[v].influences

\* C10 witness: both setters have changed the influences of an engine
C10_Witness ==
    /\ OnEngine("toggle_influence") /\ Succeeded
    /\ \E v \in DOMAIN After.meta : \E i \in 1..Len(After.meta[v].influences) :
          /\ After.meta[v].influences[i].coef
                # heap[CallerRef].comps[v].influences[i].coef
          /\ After.meta[v].influences[i].enabled
                # heap[CallerRef].comps[v].influences[i].enabled

\* the initial values of the model the caller constructed the engines from
InitialState == [v \in Range(heap[CallerRef].order) |-> heap[CallerRef].comps[v].initial]

\* C11: after reset() every variable holds the initial value of its component
\* in the model, whatever calls came before: the state is the one the engine
\* had right after construction.
C11_ResetRestoresInitial ==
    OnEngine("reset") =>
        /\ DOMAIN After.state = Range(heap[After.model].order)
        /\ \A v \in DOMAIN After.state :
              After.state[v] = heap[After.model].comps[v].initial
        /\ After.state = InitialState
        /\ After.state = SimulationEngine(heap, CallerRef, LocalRef).eng.state

\* C11 witness: reset was called on an engine whose values had moved away from
\* the initial ones
C11_Witness ==
    /\ OnEngine("reset")
    /\ \E v \in DOMAIN Before.state : Before.state[v] # InitialState[v]
    /\ After.state # Before.state

\* C12: reset() keeps the influence mutations: the coefficients and enabled
\* flags the setters wrote are, after the reset, still what get_influences_for
\* returns and what the derivative is computed from.
C12_InfluencesSurviveReset ==
    OnEngine("reset") =>
        /\ heap = pre.heap
        /\ \A v \in DOMAIN Before.meta :
              /\ After.meta[v].influences = Before.meta[v].influences
              /\ get_influences_for(After, v) = get_influences_for(Before, v)
              /\ compute_derivative(After, v)
                    = compute_derivative([Before EXCEPT !.state = After.state], v)

\* C12 witness: reset was called on an engine one of whose influences differs
\* from the caller's model, and the derivative after the reset is not the one
\* the caller's influences give
C12_Witness ==
    /\ OnEngine("reset")
    /\ \E v \in DOMAIN After.meta :
          /\ After.meta[v].influences # heap[CallerRef].comps[v].influences
          /\ compute_derivative(After, v)
                # compute_derivative(
                      [After EXCEPT !.meta[v].influences =
                          heap[CallerRef].comps[v].influences], v)

\* the variables of an engine that only set_parameter and reset write (C5)
Constants(eng) == {v \in DOMAIN eng.state : eng.meta[v].type = "constant"}

\* C13 as stated: a value written by set_parameter(variable, value) is still
\* the value of that variable after a following reset().  A constant holds
\* its initial value or the value the last set_parameter stored.
C13_ParametersSurviveReset ==
    /\ OnEngine("set_parameter") /\ Succeeded =>
          reset(heap, After).state[lastCall.variable] = After.state[lastCall.variable]
    /\ OnEngine("reset") =>
          \A v \in Constants(Before) : After.state[v] = Before.state[v]

\* C13 amended: set_parameter writes the state only and leaves the model's
\* initial values alone, so a following reset() discards the value written:
\* the variable is back at the initial value of its component, and the engine
\* is the one a reset without the set_parameter would have left.
C13_ResetDiscardsParameters ==
    /\ OnEngine("set_parameter") /\ Succeeded =>
          /\ heap = pre.heap
          /\ reset(heap, After).state[lastCall.variable]
                = heap[After.model].comps[lastCall.variable].initial
          /\ reset(heap, After) = reset(heap, Before)
    /\ OnEngine("reset") =>
          \A v \in Constants(Before) :
              After.state[v] = heap[After.model].comps[v].initial

\* C13 witness: reset was called on an engine one of whose constants held a
\* value stored by set_parameter, and the constant is back at its initial value
C13_Witness ==
    /\ OnEngine("reset")
    /\ \E v \in Constants(Before) :
          /\ Before.state[v] # InitialState[v]
          /\ After.state[v] = InitialState[v]

\* the number of steps a call of run works with
StepsOf(eng, steps) == IF steps = -1 THEN heap[eng.model].simulation.steps ELSE steps

\* C14: run(steps = n, dt) with n >= 0 returns n + 1 snapshots, the first one
\* the state at the call; as many time points, the i-th being i * dt; a final
\* state equal to the last snapshot and to the engine's state after the run;
\* and the metadata steps = n, dt, total_time = n * dt.
C14_RunResultShape ==
    OnEngine("run") /\ Succeeded =>
        LET n == StepsOf(Before, lastCall.steps)
            dt == DtOf(Before, lastCall.dt)
        IN  /\ Len(result.value.history) = n + 1
            /\ result.value.history[1] = Before.state
            /\ Len(result.value.time_points) = n + 1
            /\ \A i \in 0..n : result.value.time_points[i + 1] = Mul(<<i, 1>>, dt)
            /\ result.value.final_state = result.value.history[n + 1]
            /\ result.value.final_state = After.state
            /\ result.value.metadata
                  = [steps |-> n, dt |-> dt, total_time |-> Mul(<<n, 1>>, dt)]

\* C14 witness: a run of two steps returned three snapshots that differ
C14_Witness ==
    /\ OnEngine("run") /\ Succeeded
    /\ lastCall.steps = 2
    /\ Len(result.value.history) = 3
    /\ result.value.history[2] # result.value.history[1]
    /\ result.value.history[3] # result.value.history[2]

\* C15: run(steps = n, callback = f) invokes f exactly n times, with the step
\* numbers 1..n in order, the k-th time after the k-th step is committed and
\* recorded and with the state that step left; f is a side channel: history,
\* time points, final state and the engine are those of the same run without
\* a callback, even when f writes into the mapping it is passed.
C15_CallbackSideChannel ==
    OnEngine("run") /\ Succeeded /\ lastCall.callback.kind # "none" =>
        LET n == StepsOf(Before, lastCall.steps)
            plain == run(pre.heap, Before, lastCall.steps, lastCall.dt, NoCallback)
        IN  /\ Len(result.seen) = n
            /\ \A k \in 1..n :
                  /\ result.seen[k].step = k
                  /\ result.seen[k].recorded = k + 1
                  /\ result.seen[k].state = plain.value.history[k + 1]
            /\ result.value = plain.value
            /\ After = plain.eng

\* C15 witness: a run of two steps returned while its callback overwrote the
\* mapping it was passed, and the state moved at each step
C15_Witness ==
    /\ OnEngine("run") /\ Succeeded
    /\ lastCall.callback.kind = "mutate"
    /\ Len(result.seen) = 2
    /\ Called(lastCall.callback, result.seen[2].state) # result.seen[2].state
    /\ result.value.history[2] # result.value.history[1]
    /\ result.value.history[3] # result.value.history[2]

\* two engines hold the same values, the same metadata and equal models
SameConfiguration(a, b) ==
    /\ a.state = b.state
    /\ a.meta = b.meta
    /\ a.order = b.order
    /\ heap[a.model] = heap[b.model]

SomeDerivativeFails(eng) ==
    \E v \in DOMAIN eng.state :
        Evolves(eng, v) /\ compute_derivative(eng, v).exc # ""

\* C18: no partial step.  A call of step() either writes every state and
\* computed variable its new value, or, when the derivative of some variable
\* raises (the division function on a source value of -1), raises and leaves
\* every value as it was before the call.
C18_StepAtomic ==
    OnEngine("step") =>
        /\ Succeeded <=> ~SomeDerivativeFails(Before)
        /\ ~Succeeded => After = Before
        /\ Succeeded =>
              \A v \in DOMAIN Before.state :
                  Before.meta[v].type \in {"state", "computed"} =>
                      After.state[v]
                         = apply_bounds(Before, v,
                               NewValue(Before, DtOf(Before, lastCall.dt), v,
                                        compute_derivative(Before, v).val))

\* C18 witness: a step raised on the derivative of a variable that comes after
\* one whose new value differs from its value
C18_Witness ==
    /\ OnEngine("step") /\ ~Succeeded
    /\ result.exc = "ZeroDivisionError"
    /\ \E i, j \in 1..Len(Before.order) :
          /\ i < j
          /\ compute_derivative(Before, Before.order[j]).exc # ""
          /\ Evolves(Before, Before.order[i])
          /\ compute_derivative(Before, Before.order[i]).exc = ""
          /\ apply_bounds(Before, Before.order[i],
                 NewValue(Before, DtOf(Before, lastCall.dt), Before.order[i],
                          compute_derivative(Before, Before.order[i]).val))
                # Before.state[Before.order[i]]

\* every variable and every influence the changes refer to exists in model m
AllExist(m, parameter_changes, influence_changes) ==
    /\ \A i \in 1..Len(parameter_changes) :
          parameter_changes[i][1] \in Range(m.order)
    /\ \A i \in 1..Len(influence_changes) :
          /\ influence_changes[i].target \in Range(m.order)
          /\ HasFrom(m.comps[influence_changes[i].target].influences,
                     influence_changes[i].source)

\* the influence lists, by target, once the changes from the i-th on are made
RECURSIVE Changed(_, _, _)
Changed(influencesOf, changes, i) ==
    IF i > Len(changes) THEN influencesOf
    ELSE LET c == changes[i]
             l0 == influencesOf[c.target]
             l1 == IF c.has_coef THEN Recoefed(l0, c.source, c.coef) ELSE l0
             l2 == IF c.has_enabled THEN Reflagged(l1, c.source, c.enabled) ELSE l1
         IN  Changed([influencesOf EXCEPT ![c.target] = l2], changes, i + 1)

\* the value of v once the first i parameter changes are made
RECURSIVE Parameter(_, _, _, _)
Parameter(m, changes, v, i) ==
    IF i = 0 THEN m.comps[v].initial
    ELSE IF changes[i][1] = v THEN Limited(m.comps[v], changes[i][2])
    ELSE Parameter(m, changes, v, i - 1)

\* what simulate is to return for the caller's model: the run of a new engine
\* that holds the changed values and the changed influences
Expected(parameter_changes, influence_changes) ==
    LET m == heap[CallerRef]
        new == SimulationEngine(heap, CallerRef, LocalRef)
        lists == Changed([v \in Range(m.order) |-> m.comps[v].influences],
                         influence_changes, 1)
    IN  run(new.heap,
            [new.eng EXCEPT
                !.state = [v \in DOMAIN new.eng.state |->
                              Parameter(m, parameter_changes, v, Len(parameter_changes))],
                !.meta = [v \in DOMAIN new.eng.meta |->
                              [new.eng.meta[v] EXCEPT !.influences = lists[v]]]],
            lastCall.steps, lastCall.dt, NoCallback)

\* C19: simulate() makes all parameter changes, then all influence changes
\* (both the coef and the enabled of a change that carries both), and only
\* then runs; when a variable or an influence referred to does not exist, the
\* error reaches the caller, no step is made and no result is returned.
C19_SimulateAppliesThenRuns ==
    lastCall.op = "simulate" =>
        IF AllExist(heap[CallerRef], lastCall.parameter_changes,
                    lastCall.influence_changes)
        THEN /\ result.exc
                   = Expected(lastCall.parameter_changes, lastCall.influence_changes).exc
             /\ result.value
                   = Expected(lastCall.parameter_changes, lastCall.influence_changes).value
        ELSE /\ result.exc \in {"Unknown variable", "Unknown target variable",
                                "No influence"}
             /\ result.value = NoResult
             /\ (\E i \in 1..Len(lastCall.parameter_changes) :
                    lastCall.parameter_changes[i][1] \notin Range(heap[CallerRef].order))
                => result.exc = "Unknown variable"

\* C19 witness: simulate returned a result that depends on the parameter
\* change and on both the coef and the enabled of one influence change
C19_Witness ==
    /\ lastCall.op = "simulate" /\ Succeeded
    /\ lastCall.parameter_changes # <<>>
    /\ result.value # Expected(<<>>, lastCall.influence_changes).value
    /\ \E i \in 1..Len(lastCall.influence_changes) :
          /\ lastCall.influence_changes[i].has_coef
          /\ lastCall.influence_changes[i].has_enabled
          /\ result.value
                # Expected(lastCall.parameter_changes,
                           [lastCall.influence_changes EXCEPT ![i].has_coef = FALSE]).value
          /\ result.value
                # Expected(lastCall.parameter_changes,
                           [lastCall.influence_changes EXCEPT ![i].has_enabled = FALSE]).value

\* the LLM call did not lead to a model
Invalid(outcome) == Parsed(outcome).exc # ""

TheEdge == heap[CallerRef].comps[TX].influences[1]
EdgeStepped == OnEngine("step") /\ TX \in DOMAIN Before.state

\* the variable a source string of an influence on variable names, when it is
\* neither "self" nor the variable's own bare name
Named(variable, from) == IF Len(from) > 1 THEN from ELSE <<variable[1]>> \o from

\* the source string names variable itself
OwnName(variable, from) == from = <<"self">> \/ from = <<variable[Len(variable)]>>

\* the source string names no tracked variable
Dangling(eng, variable, from) ==
    ~OwnName(variable, from) /\ Named(variable, from) \notin DOMAIN eng.state

\* the value a step leaves in a state variable whose one influence contributes c
Stepped(eng, dt, variable, c) == Add(eng.state[variable], Mul(dt, c))

\* C21: a step of an engine whose enabled influence has a dangling source
\* (qualified, or bare and qualified with the target's entity) does not raise;
\* it leaves the target at the value computed with the source value 0.0.
C21_DanglingSourceReadsZero ==
    (EdgeStepped /\ Dangling(Before, TX, TheEdge.from)) =>
        /\ result.exc = ""
        /\ ContributionOf(Before, TX, TheEdge, Zero).exc = ""
        /\ After.state[TX] =
              Stepped(Before, DtOf(Before, lastCall.dt), TX,
                      ContributionOf(Before, TX, TheEdge, Zero).val)

\* C21 witness: a step over a bare dangling source whose influence, read at 0.0,
\* moved the target
C21_Witness ==
    /\ EdgeStepped
    /\ TheEdge.from = <<"ghost">>
    /\ TheEdge.function = "division"
    /\ result.exc = ""
    /\ After.state[TX] # Before.state[TX]

\* C22: an enabled influence with a dangling source adds exactly 0 to the
\* derivative of its target, for every kind and every transfer function: the
\* step of the one-edge engine does not raise and leaves the target unchanged.
C22_DanglingContributesZero ==
    (EdgeStepped /\ Dangling(Before, TX, TheEdge.from)) =>
        /\ result.exc = ""
        /\ After.state[TX] = Before.state[TX]

\* the engine whose edge is spelled with the literal "self"
SpelledSelf(eng) == [eng EXCEPT !.meta[TX].influences[1].from = <<"self">>]

\* C23: a step over an influence whose source string is the target's own bare
\* component name ends as the step of the same engine with the source string
\* "self" ends: it raises the same or leaves the same state, and the target
\* holds the value computed from its own pre-step value as source value.
C23_BareOwnNameIsSelf ==
    (EdgeStepped /\ TheEdge.from = <<TX[2]>>) =>
        LET dt == DtOf(Before, lastCall.dt)
            literal == step_with(SpelledSelf(Before), dt, Before.order, 1)
            own == ContributionOf(Before, TX, TheEdge, Before.state[TX])
        IN  /\ result.exc = literal.exc
            /\ After.state = literal.eng.state
            /\ result.exc = own.exc
            /\ result.exc = "" => After.state[TX] = Stepped(Before, dt, TX, own.val)

\* C23 witness: a step over the bare own name with a linear positive influence
\* on a target at 1/2, which moved the target by dt * coef * 1/2
C23_Witness ==
    /\ EdgeStepped
    /\ TheEdge.from = <<"x">>
    /\ TheEdge.kind = "positive"
    /\ TheEdge.function = "linear"
    /\ Before.state[TX] = Half
    /\ result.exc = ""
    /\ After.state[TX] # Before.state[TX]
    /\ After.state[TX] # Stepped(Before, DtOf(Before, lastCall.dt), TX,
                                 Mul(TheEdge.coef, Before.state[TY]))

\* C24: ratio zero-guard: an enabled influence of kind ratio on a target whose
\* value is exactly 0 contributes exactly 0 and the derivative computation
\* does not raise, for every source value, coefficient and transfer function:
\* the step of the one-edge engine returns and leaves the target at 0.
C24_RatioZeroGuard ==
    (EdgeStepped /\ TheEdge.kind = "ratio" /\ Before.state[TX] = Zero) =>
        /\ result.exc = ""
        /\ After.state[TX] = Zero

\* the source value an influence on variable from the given source string is
\* to read: the variable's own value, the named variable's, 0.0 when dangling
Read(eng, variable, from) ==
    IF OwnName(variable, from) THEN eng.state[variable]
    ELSE IF Dangling(eng, variable, from) THEN Zero
    ELSE eng.state[Named(variable, from)]

\* the result of the edge's transfer function in the engine
Transfer(eng) ==
    INFLUENCE_FUNCTIONS(TheEdge.function, Read(eng, TX, TheEdge.from), TheEdge.coef)

\* C25: where the transfer function returns, an enabled influence of kind
\* negative contributes minus the absolute value of its result, so the step
\* never raises the target, whatever the signs of coefficient and source value;
\* one of kind positive contributes the result as it is.
C25_NegativeOverridesSign ==
    (EdgeStepped /\ Transfer(Before).exc = "") =>
        LET dt == DtOf(Before, lastCall.dt)
            raw == Transfer(Before).val
        IN  /\ TheEdge.kind = "negative" =>
                /\ result.exc = ""
                /\ After.state[TX] = Stepped(Before, dt, TX, Neg(Abs(raw)))
                /\ ~Less(Before.state[TX], After.state[TX])
            /\ TheEdge.kind = "positive" =>
                /\ result.exc = ""
                /\ After.state[TX] = Stepped(Before, dt, TX, raw)

\* C25 witness: a step over a negative-kind linear influence with a positive
\* coefficient and a positive source value, which lowered the target
C25_Witness ==
    /\ EdgeStepped
    /\ TheEdge.kind = "negative"
    /\ TheEdge.function = "linear"
    /\ Less(Zero, TheEdge.coef)
    /\ Less(Zero, Read(Before, TX, TheEdge.from))
    /\ result.exc = ""
    /\ Less(After.state[TX], Before.state[TX])

\* C26: an enabled influence of kind decay contributes coefficient times the
\* target's own pre-step value, whatever its source string, its source value
\* and its transfer function are: the step of the one-edge engine returns and
\* leaves the target at value + dt * coef * value (0.49 from 0.5 with
\* coefficient -0.2 and dt 0.1).
C26_DecayIgnoresTransfer ==
    (EdgeStepped /\ TheEdge.kind = "decay") =>
        /\ result.exc = ""
        /\ After.state[TX] =
              Stepped(Before, DtOf(Before, lastCall.dt), TX,
                      Mul(TheEdge.coef, Before.state[TX]))

\* the numbers of steps of a run that follows another
ContinuedSteps == {2}

\* C27: run does not reset the engine.  Its history starts at the state the
\* engine was in at the call (the final state of a run made just before), and a
\* run of b steps made after a run of a steps ends, whether it returns or
\* raises, in the state a single run of a + b steps with the same dt ends in.
C27_RunContinues ==
    OnEngine("run") /\ Succeeded =>
        /\ result.value.history[1] = Before.state
        /\ \A b \in ContinuedSteps :
              LET a == StepsOf(Before, lastCall.steps)
                  second == run(heap, After, b, lastCall.dt, NoCallback)
                  single == run(pre.heap, Before, a + b, lastCall.dt, NoCallback)
              IN  /\ second.exc = single.exc
                  /\ second.eng.state = single.eng.state
                  /\ second.exc = "" =>
                        /\ second.value.history[1] = result.value.final_state
                        /\ second.value.final_state = single.value.final_state

\* C27 witness: a run of two steps was made on an engine that a run of two
\* steps from the initial state had moved, without a reset in between; the
\* second run moved it further and left it where a run of four steps from the
\* initial state ends
C27_Witness ==
    /\ OnEngine("run") /\ Succeeded
    /\ lastCall.steps = 2
    /\ LET first == run(pre.heap, reset(pre.heap, Before), 2, lastCall.dt, NoCallback)
           single == run(pre.heap, reset(pre.heap, Before), 4, lastCall.dt, NoCallback)
       IN  /\ first.exc = ""
           /\ Before.state = first.value.final_state
           /\ Before.state # reset(pre.heap, Before).state
           /\ result.value.history[1] = first.value.final_state
           /\ After.state # Before.state
           /\ After.state = single.eng.state

\* the positions of the influences of the list that carry the source string
Matching(influences, source) ==
    {i \in 1..Len(influences) : influences[i].from = source}

\* the influence setters
InfluenceSetters == {"set_influence_coef", "toggle_influence"}

\* C28: when the target holds several influences with the source string given,
\* a successful set_influence_coef or toggle_influence writes the one that
\* comes first in the list; every later one with that source is as before in
\* the metadata and in the model, so it keeps its coefficient and its enabled
\* flag, and one that was enabled still is after toggle_influence(.., False).
C28_OnlyFirstDuplicate ==
    \A op \in InfluenceSetters :
        OnEngine(op) /\ Succeeded =>
            LET before == Before.meta[lastCall.variable].influences
                after == After.meta[lastCall.variable].influences
                inModel == heap[After.model].comps[lastCall.variable].influences
                same == Matching(before, lastCall.source)
            IN  Cardinality(same) >= 2 =>
                  /\ Len(after) = Len(before)
                  /\ op = "set_influence_coef" => after[Least(same)].coef = lastCall.value
                  /\ op = "toggle_influence" => after[Least(same)].enabled = lastCall.enabled
                  /\ \A j \in same \ {Least(same)} :
                        /\ after[j] = before[j]
                        /\ inModel[j] = before[j]
                        /\ before[j].enabled => after[j].enabled

\* C28 witness: toggle_influence(target, source, False) disabled the first of
\* two enabled influences with that source; the second is still enabled and
\* still drives the target
C28_Witness ==
    /\ OnEngine("toggle_influence") /\ Succeeded
    /\ ~lastCall.enabled
    /\ LET before == Before.meta[lastCall.variable].influences
           after == After.meta[lastCall.variable].influences
       IN  /\ Matching(before, lastCall.source) = {1, 2}
           /\ before[1].enabled /\ before[2].enabled
           /\ ~after[1].enabled /\ after[2].enabled
           /\ compute_derivative(After, lastCall.variable).exc = ""
           /\ compute_derivative(After, lastCall.variable).val # Zero

\* the operations that may write a constant: the constructor, set_parameter
\* and reset
ConstantWriters == {"SimulationEngine", "set_parameter", "reset"}

\* the derivative of target from influence i on, every influence whose source
\* is variable reading value
RECURSIVE DerivativeReading(_, _, _, _, _)
DerivativeReading(eng, target, i, variable, value) ==
    IF i > Len(eng.meta[target].influences) THEN Zero
    ELSE LET inf == eng.meta[target].influences[i]
             read == IF Names(target, inf.from) = variable THEN value
                     ELSE SourceValue(eng, target, inf.from)
         IN  Add(IF inf.enabled THEN ContributionOf(eng, target, inf, read).val
                 ELSE Zero,
                 DerivativeReading(eng, target, i + 1, variable, value))

\* C29: no call on an engine but set_parameter and reset changes a constant,
\* whether it returns or raises.  A successful set_parameter on a constant
\* stores the value limited by the constant's bounds; a step made next keeps
\* it, and where that step returns, every state or computed variable moved by
\* the derivative in which the influences from the constant read that value.
C29_ConstantsHoldParameters ==
    /\ (lastCall.e \in Engines /\ lastCall.op \notin ConstantWriters) =>
          \A v \in Constants(Before) : After.state[v] = Before.state[v]
    /\ (OnEngine("set_parameter") /\ Succeeded
        /\ lastCall.variable \in Constants(Before)) =>
          LET stored == Limited(Before.meta[lastCall.variable], lastCall.value)
          IN  /\ After.state[lastCall.variable] = stored
              /\ \A d \in StepDts :
                    LET dt == DtOf(After, d)
                        later == step_with(After, dt, After.order, 1)
                    IN  /\ later.eng.state[lastCall.variable] = stored
                        /\ later.exc = "" =>
                              \A t \in DOMAIN After.state \ Constants(After) :
                                 later.eng.state[t] =
                                    Limited(After.meta[t],
                                       NewValue(After, dt, t,
                                          DerivativeReading(After, t, 1,
                                             lastCall.variable, stored)))

\* C29 witness: a step returned on an engine whose constant holds a value
\* given by set_parameter; the constant kept it, and a variable that reads it
\* went where the constant's initial value would not have sent it
C29_Witness ==
    /\ OnEngine("step") /\ Succeeded
    /\ \E v \in Constants(Before) :
          /\ Before.state[v] # InitialState[v]
          /\ After.state[v] = Before.state[v]
          /\ \E t \in DOMAIN Before.state \ Constants(Before) :
                /\ After.state[t] # Before.state[t]
                /\ After.state[t] #
                      step_with([Before EXCEPT !.state[v] = InitialState[v]],
                                DtOf(Before, lastCall.dt), Before.order, 1).eng.state[t]

\* C30: when the callback passed to run raises at its k-th invocation, within
\* the steps asked for and after k steps that went through, run raises that
\* exception and returns no result; the callback was invoked k times and no
\* step followed: the engine is in the state the k-th step left, which is the
\* state a run of exactly k steps ends in.
C30_CallbackRaisePropagates ==
    (OnEngine("run") /\ lastCall.callback.kind = "raise") =>
        LET k == lastCall.callback.at
            upto == run(pre.heap, Before, k, lastCall.dt, NoCallback)
        IN  (k <= StepsOf(Before, lastCall.steps) /\ upto.exc = "") =>
                /\ result.exc = "CallbackError"
                /\ result.value = NoResult
                /\ Len(result.seen) = k
                /\ result.seen[k].step = k
                /\ After.state = result.seen[k].state
                /\ After.state = upto.eng.state

\* C30 witness: the callback raised at the first of two steps; the engine
\* kept what that step did and is not where the two steps would have left it
C30_Witness ==
    /\ OnEngine("run")
    /\ lastCall.callback.kind = "raise"
    /\ lastCall.callback.at = 1
    /\ lastCall.steps = 2
    /\ result.exc = "CallbackError"
    /\ After.state # Before.state
    /\ LET whole == run(pre.heap, Before, 2, lastCall.dt, NoCallback)
       IN  whole.exc = "" /\ After.state # whole.eng.state

====
